---- MODULE Spec2Model ----
(***************************************************************************)
(* A model of the sharded in-memory key-value store of package kvs         *)
(* (src/kvs.go): the constructor, the FNV-1a shard routing, the per-shard  *)
(* sync.RWMutex, and every method of KeyValueStore, each broken into the   *)
(* steps at which a goroutine can block or be interleaved with another.    *)
(*                                                                         *)
(* Values are references to caller-allocated objects (the tests store      *)
(* *Person): a shard map holds a reference, `heap` holds each object's     *)
(* content.  A goroutine that panics or hits a runtime fatal error ends    *)
(* the whole process: `fault` records it and no step is possible after.    *)
(***************************************************************************)
EXTENDS Integers, Sequences, FiniteSets, TLC

\* ---------------------------------------------------------------- bounds
\* largest shard count handed to NewKeyValueStore
MaxShards == 2
\* calls made by the single caller of the sequential specifications
MaxSeqOps == 3
\* longest key list handed to BatchDelete
MaxBatch == 2
\* calls made, all callers together, in the concurrent specifications
MaxConcOps == 3
\* longest key handed to shardIndex on its own
MaxKeyLen == 2

\* ------------------------------------------------------------ the domain
Callers == {"c1", "c2"}
\* the keys "a" and "b" as byte strings
Keys == {<<97>>, <<98>>}
\* objects allocated by the callers, and what an object can hold
Refs == {"p1", "p2"}
Contents == {"x", "y"}
NoKey == <<>>
ShardArgs == (-1)..MaxShards

\* ------------------------------------------------------- shard routing
\* A uint32 is a pair <<hi, lo>> of 16-bit halves, so that no intermediate
\* product leaves the range of TLC's integers.
Half == 65536
OffsetHi == 33052
OffsetLo == 40389
PrimeHi == 256
PrimeLo == 403
\* width of Go's int on the platform the main specifications run on
IntBits == 64

RECURSIVE XorBits(_, _, _)
XorBits(a, b, n) ==
    IF n = 0 THEN 0
    ELSE (((a % 2) + (b % 2)) % 2) + (2 * XorBits(a \div 2, b \div 2, n - 1))

\* h * 16777619 mod 2^32
MulPrime(h) ==
    LET lo == h[2] * PrimeLo
    IN  << ((h[1] * PrimeLo) + (h[2] * PrimeHi) + (lo \div Half)) % Half, lo % Half >>

\* (h * 16777619) ^ uint32(b)
FnvStep(h, b) ==
    LET m == MulPrime(h)
    IN  << m[1], ((m[2] \div 256) * 256) + XorBits(m[2] % 256, b, 8) >>

RECURSIVE FnvFrom(_, _, _)
FnvFrom(h, key, i) ==
    IF i > Len(key) THEN h ELSE FnvFrom(FnvStep(h, key[i]), key, i + 1)

Fnv(key) == FnvFrom(<<OffsetHi, OffsetLo>>, key, 1)

\* int(h) % n for n > 0, with Go's truncated remainder: where int is 32 bits
\* wide a hash of 2^31 or more converts to h - 2^32, which is negative.
IntMod(h, n, bits) ==
    IF bits = 32 /\ h[1] >= Half \div 2
    THEN 0 - (((((Half - 1 - h[1]) % n) * (Half % n)) + (Half - h[2])) % n)
    ELSE (((h[1] % n) * (Half % n)) + h[2]) % n

\* (a routing that sends every key to the first shard)
shardIndexFirst(key, n) == 0

shardIndex(key, n) == IntMod(Fnv(key), n, IntBits)

\* shardIndex where int is bits wide
shardIndexOn(key, n, bits) == IntMod(Fnv(key), n, bits)

\* ---------------------------------------------------------- formatSize
suffixes == <<"B", "KB", "MB", "GB", "TB", "PB", "EB", "ZB", "YB">>

\* 1024^i, for the i whose power TLC's integers hold
RECURSIVE Pow1024(_)
Pow1024(i) == IF i = 0 THEN 1 ELSE 1024 * Pow1024(i - 1)

\* size < divisor*1024 where divisor = 1024^i mod 2^64, for size < 2^31:
\* 1024^(i+1) is compared while it is below 2^31, is above every such size
\* while it is below 2^64, and has wrapped to 0 from 1024^7 on.
BelowNext(size, i) ==
    IF 10 * (i + 1) <= 30 THEN size < Pow1024(i + 1)
    ELSE 10 * (i + 1) < 64

\* the loop over suffixes; past its end suffix is "" and divisor is 0
RECURSIVE formatLoop(_, _)
formatLoop(size, i) ==
    IF i >= Len(suffixes) THEN << "panic: integer divide by zero", "" >>
    ELSE IF BelowNext(size, i)
         THEN << size \div Pow1024(i), suffixes[i + 1] >>
         ELSE formatLoop(size, i + 1)

\* <<size/divisor, suffix>>, the two things "%d %s" prints
formatSize(size) == formatLoop(size, 0)

\* formatSize over the whole of uint64.  A uint64 is a tuple of Limbs
\* digits of base Kilo, the lowest first; the highest digit holds the bits
\* 60..63 and stays below TopLimb.
Limbs == 7
Kilo == 1024
TopLimb == 16

LimbRange == 1 .. Limbs

Zero64 == [j \in LimbRange |-> 0]

\* var divisor uint64 = 1
One64 == [j \in LimbRange |-> IF j = 1 THEN 1 ELSE 0]

\* x * 1024 mod 2^64: every digit moves up one place, and what leaves
\* bit 63 is lost
Mul1024(x) ==
    [j \in LimbRange |->
        IF j = 1 THEN 0
        ELSE IF j = Limbs THEN x[j - 1] % TopLimb
        ELSE x[j - 1]]

RECURSIVE LessFrom(_, _, _)
LessFrom(a, b, j) ==
    IF j = 0 THEN FALSE
    ELSE IF a[j] # b[j] THEN a[j] < b[j]
    ELSE LessFrom(a, b, j - 1)

\* a < b
Less64(a, b) == LessFrom(a, b, Limbs)

\* size / divisor for the divisors the loop produces, 1024^p and 0:
\* dividing by 0 panics, dividing by 1024^p drops the p lowest digits
Div64(size, divisor) ==
    IF divisor = Zero64
    THEN [panic |-> TRUE, quot |-> Zero64]
    ELSE LET p == (CHOOSE j \in LimbRange : divisor[j] # 0) - 1
         IN  [panic |-> FALSE,
              quot |-> [j \in LimbRange |->
                          IF j + p <= Limbs THEN size[j + p] ELSE 0]]

\* the loop over suffixes, then size/divisor; past the end of the loop
\* suffix is still ""
RECURSIVE formatLoop64(_, _, _)
formatLoop64(size, divisor, i) ==
    IF i >= Len(suffixes)
    THEN [suffix |-> ""] @@ Div64(size, divisor)
    ELSE IF Less64(size, Mul1024(divisor))
         THEN [suffix |-> suffixes[i + 1]] @@ Div64(size, divisor)
         ELSE formatLoop64(size, Mul1024(divisor), i + 1)

formatSizeUint64(size) == formatLoop64(size, One64, 0)

\* ------------------------------------------------------------- the state
VARIABLES
    newResult,  \* what NewKeyValueStore did: "none" before the call, then
                \* "store", or "panic"
    numShards,  \* the argument it was called with
    count,      \* kvs.count
    shards,     \* kvs.shards: shard index -> (key -> reference or "nil")
    wlock,      \* per shard: "free", or the caller whose Lock() succeeded
    rlock,      \* per shard: the callers whose RLock() succeeded
    fault,      \* "none", or the panic / fatal error that ended the process
    pc,         \* per caller: "idle", or the step its call is at
    fr,         \* per caller: the locals of its call
    ret,        \* per caller: what its last call returned
    left,       \* how many more calls the callers make, all together
    active,     \* the callers that use the store
    open,       \* per caller: it returned from Begin and has not yet
                \* called Commit or Rollback
    hist,       \* the returned calls, in order of return
    histCap,    \* how many returned calls hist records
    heap,       \* reference -> content of the object
    calc        \* a call of shardIndex or formatSize on inputs of its own:
                \* the inputs, and the result once it is computed

vars == << newResult, numShards, count, shards, wlock, rlock, fault, pc, fr,
           ret, left, active, open, hist, histCap, heap, calc >>

storeVars == << newResult, numShards, count, active, calc >>

\* everything but calc
machineVars == << newResult, numShards, count, shards, wlock, rlock, fault,
                  pc, fr, ret, left, active, open, hist, histCap, heap >>

NoCalc == [fn |-> "none"]

Shards == 0 .. (count - 1)

NoFrame ==
    [op |-> "none", key |-> NoKey, ref |-> "nil", i |-> 0, kv |-> << >>,
     rest |-> {}, ks |-> << >>, j |-> 1, keys |-> << >>, total |-> 0]

NoRet ==
    [who |-> "none", op |-> "none", key |-> NoKey, arg |-> "nil",
     ref |-> "nil", val |-> "nil", err |-> "nil", keys |-> << >>,
     size |-> << >>, batch |-> << >>]

Alive == newResult = "store" /\ fault = "none"

\* ----------------------------------------------------- NewKeyValueStore
NewKeyValueStore(n) ==
    /\ newResult = "none"
    /\ numShards' = n
    /\ IF n < 0
       THEN \* make([]*shard, numShards) panics
            /\ newResult' = "panic"
            /\ fault' = "panic: makeslice: len out of range"
            /\ UNCHANGED << count, shards, wlock, rlock >>
       ELSE /\ newResult' = "store"
            /\ count' = n
            /\ shards' = [s \in 0 .. (n - 1) |-> [k \in Keys |-> "nil"]]
            /\ wlock' = [s \in 0 .. (n - 1) |-> "free"]
            /\ rlock' = [s \in 0 .. (n - 1) |-> {}]
            /\ fault' = fault
    /\ UNCHANGED << pc, fr, ret, left, active, open, hist, histCap, heap, calc >>

\* ------------------------------------------------------- sync.RWMutex
\* (a Lock() that never waits)
CanLockAlways(s) == TRUE

\* (one mutex for the whole store: Lock() waits for every shard)
CanLockStoreWide(s) == \A t \in Shards : wlock[t] = "free" /\ rlock[t] = {}

\* (a Lock() that takes the mutex of every shard)
LockedAll(w, s, c) == [t \in DOMAIN w |-> c]

\* Lock() returns once no writer and no reader holds the mutex.
CanLock(s) == wlock[s] = "free" /\ rlock[s] = {}
\* (an RLock() that never returns)
CanRLockNever(s) == FALSE

\* RLock() returns once no writer holds the mutex.
CanRLock(s) == wlock[s] = "free"
\* Unlock() of a mutex that is not locked for writing is a fatal error; the
\* mutex does not know which goroutine locked it.
CanUnlock(s) == wlock[s] # "free"

\* (a Lock() that returns without taking the mutex)
NotLocked(w, s, c) == w

Locked(w, s, c) == [w EXCEPT ![s] = c]
\* (an Unlock() that leaves the mutex locked)
StillLocked(w, s) == w

Unlocked(w, s) == [w EXCEPT ![s] = "free"]

\* ------------------------------------------------------------- calling
CanCall(c) == Alive /\ c \in active /\ pc[c] = "idle" /\ left > 0

Enter(c, label, frame) ==
    /\ pc' = [pc EXCEPT ![c] = label]
    /\ fr' = [fr EXCEPT ![c] = frame]
    /\ left' = left - 1
    /\ ret' = [ret EXCEPT ![c] = NoRet]

\* shardIndex divides by kvs.count
DivideByZero(c) ==
    /\ fault' = "panic: integer divide by zero"
    /\ left' = left - 1
    /\ UNCHANGED << pc, fr, ret >>

Return(c, r) ==
    /\ pc' = [pc EXCEPT ![c] = "idle"]
    /\ fr' = [fr EXCEPT ![c] = NoFrame]
    /\ ret' = [ret EXCEPT ![c] = r]
    /\ hist' = IF Len(hist) < histCap THEN Append(hist, r) ELSE hist

Fatal ==
    /\ fault' = "fatal error: sync: Unlock of unlocked RWMutex"
    /\ UNCHANGED << pc, fr, ret, hist >>

Result(c) ==
    [NoRet EXCEPT !.who = c, !.op = fr[c].op,
                  !.key = IF fr[c].op \in {"Set", "Get", "Delete"}
                          THEN fr[c].key ELSE NoKey,
                  !.batch = IF fr[c].op = "BatchSet" THEN fr[c].kv
                            ELSE fr[c].ks]

\* ------------------------------------------------------------------ Set
CallSet(c, k, r) ==
    /\ CanCall(c)
    /\ IF count = 0
       THEN DivideByZero(c)
       ELSE /\ Enter(c, "Set_Lock", [NoFrame EXCEPT !.op = "Set", !.key = k,
                                                     !.ref = r,
                                                     !.i = shardIndex(k, count)])
            /\ fault' = fault
    /\ UNCHANGED << storeVars, shards, wlock, rlock, open, hist, histCap, heap >>

Set_Lock(c) ==
    /\ Alive /\ pc[c] = "Set_Lock"
    /\ CanLock(fr[c].i)
    /\ wlock' = Locked(wlock, fr[c].i, c)
    /\ pc' = [pc EXCEPT ![c] = "Set_Store"]
    /\ UNCHANGED << storeVars, shards, rlock, fault, fr, ret, left, open, hist,
                    histCap, heap >>

\* sh.store[key] = val, then the deferred Unlock and the return
\* (a Set that keeps the entry of a key already present)
StoredByIfAbsent(c) ==
    IF shards[fr[c].i][fr[c].key] = "nil"
    THEN fr[c].ref
    ELSE shards[fr[c].i][fr[c].key]

StoredBy(c) == fr[c].ref

\* (a store that overwrites every entry of the shard's map)
StoredEverywhere(m, k, v) == [x \in DOMAIN m |-> v]

Stored(m, k, v) == [m EXCEPT ![k] = v]

Set_Store(c) ==
    /\ Alive /\ pc[c] = "Set_Store"
    /\ shards' = [shards EXCEPT ![fr[c].i] = Stored(@, fr[c].key, StoredBy(c))]
    /\ IF CanUnlock(fr[c].i)
       THEN /\ wlock' = Unlocked(wlock, fr[c].i)
            /\ Return(c, [Result(c) EXCEPT !.arg = heap[fr[c].ref],
                                           !.ref = fr[c].ref])
            /\ fault' = fault
       ELSE Fatal /\ wlock' = wlock
    /\ UNCHANGED << storeVars, rlock, left, open, histCap, heap >>

\* ------------------------------------------------------------------ Get
CallGet(c, k) ==
    /\ CanCall(c)
    /\ IF count = 0
       THEN DivideByZero(c)
       ELSE /\ Enter(c, "Get_RLock", [NoFrame EXCEPT !.op = "Get", !.key = k,
                                                      !.i = shardIndex(k, count)])
            /\ fault' = fault
    /\ UNCHANGED << storeVars, shards, wlock, rlock, open, hist, histCap, heap >>

Get_RLock(c) ==
    /\ Alive /\ pc[c] = "Get_RLock"
    /\ CanRLock(fr[c].i)
    /\ rlock' = [rlock EXCEPT ![fr[c].i] = @ \cup {c}]
    /\ pc' = [pc EXCEPT ![c] = "Get_Read"]
    /\ UNCHANGED << storeVars, shards, wlock, fault, fr, ret, left, open, hist,
                    histCap, heap >>

\* val, ok := sh.store[key]; the deferred RUnlock; the return
GetResult(c) ==
    LET v == shards[fr[c].i][fr[c].key]
    IN  IF v = "nil"
        THEN [Result(c) EXCEPT !.err = "ErrNotFound"]
        ELSE [Result(c) EXCEPT !.ref = v, !.val = heap[v]]

Get_Read(c) ==
    /\ Alive /\ pc[c] = "Get_Read"
    /\ rlock' = [rlock EXCEPT ![fr[c].i] = @ \ {c}]
    /\ Return(c, GetResult(c))
    /\ UNCHANGED << storeVars, shards, wlock, fault, left, open, histCap, heap >>

\* --------------------------------------------------------------- Delete
CallDelete(c, k) ==
    /\ CanCall(c)
    /\ IF count = 0
       THEN DivideByZero(c)
       ELSE /\ Enter(c, "Delete_Lock", [NoFrame EXCEPT !.op = "Delete",
                                                        !.key = k,
                                                        !.i = shardIndex(k, count)])
            /\ fault' = fault
    /\ UNCHANGED << storeVars, shards, wlock, rlock, open, hist, histCap, heap >>

Delete_Lock(c) ==
    /\ Alive /\ pc[c] = "Delete_Lock"
    /\ CanLock(fr[c].i)
    /\ wlock' = Locked(wlock, fr[c].i, c)
    /\ pc' = [pc EXCEPT ![c] = "Delete_Body"]
    /\ UNCHANGED << storeVars, shards, rlock, fault, fr, ret, left, open, hist,
                    histCap, heap >>

\* the lookup, delete(sh.store, key), the deferred Unlock and the return
\* (a Delete without the lookup)
DeleteErrUnchecked(c) == "nil"

DeleteErr(c) ==
    IF shards[fr[c].i][fr[c].key] = "nil" THEN "ErrNotFound" ELSE "nil"

\* (a delete that clears the whole map of the shard)
DeletedAll(m, k) == [x \in DOMAIN m |-> "nil"]

Deleted(m, k) == [m EXCEPT ![k] = "nil"]

Delete_Body(c) ==
    /\ Alive /\ pc[c] = "Delete_Body"
    /\ shards' = IF DeleteErr(c) = "ErrNotFound"
                 THEN shards
                 ELSE [shards EXCEPT ![fr[c].i] = Deleted(@, fr[c].key)]
    /\ IF CanUnlock(fr[c].i)
       THEN /\ wlock' = Unlocked(wlock, fr[c].i)
            /\ Return(c, [Result(c) EXCEPT !.err = DeleteErr(c)])
            /\ fault' = fault
       ELSE Fatal /\ wlock' = wlock
    /\ UNCHANGED << storeVars, rlock, left, open, histCap, heap >>

\* ----------------------------------------------------------------- Keys
CallKeys(c) ==
    /\ CanCall(c)
    /\ Enter(c, "Keys_RLock", [NoFrame EXCEPT !.op = "Keys"])
    /\ UNCHANGED << storeVars, shards, wlock, rlock, fault, open, hist, histCap,
                    heap >>

Keys_RLock(c) ==
    /\ Alive /\ pc[c] = "Keys_RLock"
    /\ fr[c].i < count
    /\ CanRLock(fr[c].i)
    /\ rlock' = [rlock EXCEPT ![fr[c].i] = @ \cup {c}]
    /\ pc' = [pc EXCEPT ![c] = "Keys_Read"]
    /\ UNCHANGED << storeVars, shards, wlock, fault, fr, ret, left, open, hist,
                    histCap, heap >>

Present(m) == {k \in Keys : m[k] # "nil"}

\* (a shard.Keys that stops after the first key of the map)
ShardKeysFirst(m) ==
    IF Present(m) = {} THEN {<< >>} ELSE {<< k >> : k \in Present(m)}

\* shard.Keys(): the keys of the map, in the order the map's iteration gives
ShardKeys(m) ==
    {q \in [1 .. Cardinality(Present(m)) -> Present(m)] :
        \A a, b \in DOMAIN q : a # b => q[a] # q[b]}

\* (a Keys that keeps the shared lock of every shard it has read)
Keys_RUnlockSkipped(r, s, c) == r

\* sh.mu.RUnlock() in the loop of Keys
Keys_RUnlock(r, s, c) == [r EXCEPT ![s] = @ \ {c}]

\* sh.Keys(), RUnlock, append
Keys_Read(c) ==
    /\ Alive /\ pc[c] = "Keys_Read"
    /\ \E shKeys \in ShardKeys(shards[fr[c].i]) :
          fr' = [fr EXCEPT ![c].keys = @ \o shKeys, ![c].i = @ + 1]
    /\ rlock' = Keys_RUnlock(rlock, fr[c].i, c)
    /\ pc' = [pc EXCEPT ![c] = "Keys_RLock"]
    /\ UNCHANGED << storeVars, shards, wlock, fault, ret, left, open, hist,
                    histCap, heap >>

Keys_Return(c) ==
    /\ Alive /\ pc[c] = "Keys_RLock"
    /\ fr[c].i >= count
    /\ Return(c, [Result(c) EXCEPT !.keys = fr[c].keys])
    /\ UNCHANGED << storeVars, shards, wlock, rlock, fault, left, open, histCap,
                    heap >>

\* ----------------------------------------------------------------- Size
CallSize(c) ==
    /\ CanCall(c)
    /\ Enter(c, "Size_RLock", [NoFrame EXCEPT !.op = "Size"])
    /\ UNCHANGED << storeVars, shards, wlock, rlock, fault, open, hist, histCap,
                    heap >>

Size_RLock(c) ==
    /\ Alive /\ pc[c] = "Size_RLock"
    /\ fr[c].i < count
    /\ CanRLock(fr[c].i)
    /\ rlock' = [rlock EXCEPT ![fr[c].i] = @ \cup {c}]
    /\ pc' = [pc EXCEPT ![c] = "Size_Read"]
    /\ UNCHANGED << storeVars, shards, wlock, fault, fr, ret, left, open, hist,
                    histCap, heap >>

\* (a length that tells only whether the map is empty)
ShardLenNonEmpty(m) == IF Present(m) = {} THEN 0 ELSE 1

\* len(sh.store)
ShardLen(m) == Cardinality(Present(m))

\* totalSize += uint64(len(sh.store)), RUnlock
Size_Read(c) ==
    /\ Alive /\ pc[c] = "Size_Read"
    /\ fr' = [fr EXCEPT ![c].total = @ + ShardLen(shards[fr[c].i]),
                        ![c].i = @ + 1]
    /\ rlock' = [rlock EXCEPT ![fr[c].i] = @ \ {c}]
    /\ pc' = [pc EXCEPT ![c] = "Size_RLock"]
    /\ UNCHANGED << storeVars, shards, wlock, fault, ret, left, open, hist,
                    histCap, heap >>

Size_Return(c) ==
    /\ Alive /\ pc[c] = "Size_RLock"
    /\ fr[c].i >= count
    /\ Return(c, [Result(c) EXCEPT !.size = formatSize(fr[c].total)])
    /\ UNCHANGED << storeVars, shards, wlock, rlock, fault, left, open, histCap,
                    heap >>

\* ------------------------------------------------ Begin, Commit, Rollback
CallBegin(c) ==
    /\ CanCall(c)
    /\ Enter(c, "Begin_Lock", [NoFrame EXCEPT !.op = "Begin"])
    /\ UNCHANGED << storeVars, shards, wlock, rlock, fault, open, hist, histCap,
                    heap >>

\* the next sh.mu.Lock() of Begin's loop, in the order of kvs.shards
Begin_Lock(c) ==
    /\ Alive /\ pc[c] = "Begin_Lock"
    /\ fr[c].i < count
    /\ CanLock(fr[c].i)
    /\ wlock' = Locked(wlock, fr[c].i, c)
    /\ fr' = [fr EXCEPT ![c].i = @ + 1]
    /\ UNCHANGED << storeVars, shards, rlock, fault, pc, ret, left, open, hist,
                    histCap, heap >>

\* Begin returns nil: to the caller, or into BatchSet / BatchDelete
Begin_Return(c) ==
    /\ Alive /\ pc[c] = "Begin_Lock"
    /\ fr[c].i >= count
    /\ IF fr[c].op = "Begin"
       THEN /\ Return(c, Result(c))
            /\ open' = [open EXCEPT ![c] = TRUE]
       ELSE /\ pc' = [pc EXCEPT ![c] = IF fr[c].op = "BatchSet"
                                        THEN "BatchSet_Range"
                                        ELSE "BatchDelete_Range"]
            /\ fr' = [fr EXCEPT ![c].i = 0]
            /\ UNCHANGED << ret, hist, open >>
    /\ UNCHANGED << storeVars, shards, wlock, rlock, fault, left, histCap, heap >>

CallCommit(c) ==
    /\ CanCall(c)
    /\ Enter(c, "Commit_Unlock", [NoFrame EXCEPT !.op = "Commit"])
    /\ open' = [open EXCEPT ![c] = FALSE]
    /\ UNCHANGED << storeVars, shards, wlock, rlock, fault, hist, histCap, heap >>

CallRollback(c) ==
    /\ CanCall(c)
    /\ Enter(c, "Rollback_Unlock", [NoFrame EXCEPT !.op = "Rollback"])
    /\ open' = [open EXCEPT ![c] = FALSE]
    /\ UNCHANGED << storeVars, shards, wlock, rlock, fault, hist, histCap, heap >>

\* the next sh.mu.Unlock() of the loop, or the return nil after the last
UnlockNext(c) ==
    /\ IF fr[c].i >= count
       THEN /\ Return(c, Result(c))
            /\ UNCHANGED << wlock, fault >>
       ELSE IF CanUnlock(fr[c].i)
       THEN /\ wlock' = Unlocked(wlock, fr[c].i)
            /\ fr' = [fr EXCEPT ![c].i = @ + 1]
            /\ UNCHANGED << pc, ret, hist, fault >>
       ELSE Fatal /\ wlock' = wlock
    /\ UNCHANGED << storeVars, shards, rlock, left, open, histCap, heap >>

Commit_Unlock(c) ==
    /\ Alive /\ pc[c] = "Commit_Unlock"
    /\ UnlockNext(c)

Rollback_Unlock(c) ==
    /\ Alive /\ pc[c] = "Rollback_Unlock"
    /\ UnlockNext(c)

\* ------------------------------------------------------------- BatchSet
\* the maps a caller passes: some keys, each with an object
BatchMaps == UNION {[K -> Refs] : K \in SUBSET Keys}

CallBatchSet(c, m) ==
    /\ CanCall(c)
    /\ Enter(c, "Begin_Lock", [NoFrame EXCEPT !.op = "BatchSet", !.kv = m,
                                               !.rest = DOMAIN m])
    /\ UNCHANGED << storeVars, shards, wlock, rlock, fault, open, hist, histCap,
                    heap >>

\* for key, val := range kvMap, in the order the map's iteration gives;
\* after the last entry, kvs.Commit()
BatchSet_Range(c) ==
    /\ Alive /\ pc[c] = "BatchSet_Range"
    /\ IF fr[c].rest = {}
       THEN /\ pc' = [pc EXCEPT ![c] = "Commit_Unlock"]
            /\ fr' = [fr EXCEPT ![c].i = 0]
            /\ UNCHANGED << fault >>
       ELSE IF count = 0
       THEN /\ fault' = "panic: integer divide by zero"
            /\ UNCHANGED << pc, fr >>
       ELSE /\ \E k \in fr[c].rest :
                  fr' = [fr EXCEPT ![c].key = k, ![c].ref = fr[c].kv[k],
                                   ![c].rest = @ \ {k},
                                   ![c].i = shardIndex(k, count)]
            /\ pc' = [pc EXCEPT ![c] = "BatchSet_Lock"]
            /\ UNCHANGED << fault >>
    /\ UNCHANGED << storeVars, shards, wlock, rlock, ret, left, open, hist,
                    histCap, heap >>

BatchSet_Lock(c) ==
    /\ Alive /\ pc[c] = "BatchSet_Lock"
    /\ CanLock(fr[c].i)
    /\ wlock' = Locked(wlock, fr[c].i, c)
    /\ pc' = [pc EXCEPT ![c] = "BatchSet_Store"]
    /\ UNCHANGED << storeVars, shards, rlock, fault, fr, ret, left, open, hist,
                    histCap, heap >>

\* sh.store[key] = val; sh.mu.Unlock()
BatchSet_Store(c) ==
    /\ Alive /\ pc[c] = "BatchSet_Store"
    /\ shards' = [shards EXCEPT ![fr[c].i][fr[c].key] = fr[c].ref]
    /\ IF CanUnlock(fr[c].i)
       THEN /\ wlock' = Unlocked(wlock, fr[c].i)
            /\ pc' = [pc EXCEPT ![c] = "BatchSet_Range"]
            /\ UNCHANGED << fault >>
       ELSE /\ fault' = "fatal error: sync: Unlock of unlocked RWMutex"
            /\ UNCHANGED << wlock, pc >>
    /\ UNCHANGED << storeVars, rlock, fr, ret, left, open, hist, histCap, heap >>

\* ---------------------------------------------------------- BatchDelete
CallBatchDelete(c, ks) ==
    /\ CanCall(c)
    /\ Enter(c, "Begin_Lock", [NoFrame EXCEPT !.op = "BatchDelete", !.ks = ks])
    /\ UNCHANGED << storeVars, shards, wlock, rlock, fault, open, hist, histCap,
                    heap >>

\* for _, key := range keys; after the last key, kvs.Commit()
BatchDelete_Range(c) ==
    /\ Alive /\ pc[c] = "BatchDelete_Range"
    /\ IF fr[c].j > Len(fr[c].ks)
       THEN /\ pc' = [pc EXCEPT ![c] = "Commit_Unlock"]
            /\ fr' = [fr EXCEPT ![c].i = 0]
            /\ UNCHANGED << fault >>
       ELSE IF count = 0
       THEN /\ fault' = "panic: integer divide by zero"
            /\ UNCHANGED << pc, fr >>
       ELSE /\ fr' = [fr EXCEPT ![c].key = fr[c].ks[fr[c].j], ![c].j = @ + 1,
                                ![c].i = shardIndex(fr[c].ks[fr[c].j], count)]
            /\ pc' = [pc EXCEPT ![c] = "BatchDelete_Lock"]
            /\ UNCHANGED << fault >>
    /\ UNCHANGED << storeVars, shards, wlock, rlock, ret, left, open, hist,
                    histCap, heap >>

BatchDelete_Lock(c) ==
    /\ Alive /\ pc[c] = "BatchDelete_Lock"
    /\ CanLock(fr[c].i)
    /\ wlock' = Locked(wlock, fr[c].i, c)
    /\ pc' = [pc EXCEPT ![c] = "BatchDelete_Delete"]
    /\ UNCHANGED << storeVars, shards, rlock, fault, fr, ret, left, open, hist,
                    histCap, heap >>

\* delete(sh.store, key); sh.mu.Unlock()
BatchDelete_Delete(c) ==
    /\ Alive /\ pc[c] = "BatchDelete_Delete"
    /\ shards' = [shards EXCEPT ![fr[c].i] = Deleted(@, fr[c].key)]
    /\ IF CanUnlock(fr[c].i)
       THEN /\ wlock' = Unlocked(wlock, fr[c].i)
            /\ pc' = [pc EXCEPT ![c] = "BatchDelete_Range"]
            /\ UNCHANGED << fault >>
       ELSE /\ fault' = "fatal error: sync: Unlock of unlocked RWMutex"
            /\ UNCHANGED << wlock, pc >>
    /\ UNCHANGED << storeVars, rlock, fr, ret, left, open, hist, histCap, heap >>

\* the key lists a caller passes (a key may repeat)
BatchLists == UNION {[1 .. n -> Keys] : n \in 0 .. MaxBatch}

\* ------------------------------------------------------- the caller's own
\* A caller writes to an object it allocated, or one Get handed it.
Mutate(c, r, v) ==
    /\ Alive /\ c \in active /\ pc[c] = "idle"
    /\ heap[r] # v
    /\ heap' = [heap EXCEPT ![r] = v]
    /\ UNCHANGED << storeVars, shards, wlock, rlock, fault, pc, fr, ret, left,
                    open, hist, histCap >>

\* ------------------------------------------------------ specifications
InitMachine(who, budget, cap) ==
    /\ newResult = "none"
    /\ numShards = 0
    /\ count = 0
    /\ shards = << >>
    /\ wlock = << >>
    /\ rlock = << >>
    /\ fault = "none"
    /\ pc = [c \in Callers |-> "idle"]
    /\ fr = [c \in Callers |-> NoFrame]
    /\ ret = [c \in Callers |-> NoRet]
    /\ left = budget
    /\ active = who
    /\ open = [c \in Callers |-> FALSE]
    /\ hist = << >>
    /\ histCap = cap
    /\ heap = [r \in Refs |-> IF r = "p1" THEN "x" ELSE "y"]

InitWith(who, budget, cap) == InitMachine(who, budget, cap) /\ calc = NoCalc

Construct == \E n \in ShardArgs : NewKeyValueStore(n)

CrudCall(c) ==
    \/ \E k \in Keys, r \in Refs : CallSet(c, k, r)
    \/ \E k \in Keys : CallGet(c, k)
    \/ \E k \in Keys : CallDelete(c, k)

CrudStep(c) ==
    \/ Set_Lock(c) \/ Set_Store(c)
    \/ Get_RLock(c) \/ Get_Read(c)
    \/ Delete_Lock(c) \/ Delete_Body(c)

ScanCall(c) == CallKeys(c) \/ CallSize(c)

ScanStep(c) ==
    \/ Keys_RLock(c) \/ Keys_Read(c) \/ Keys_Return(c)
    \/ Size_RLock(c) \/ Size_Read(c) \/ Size_Return(c)

TxnCall(c) == CallBegin(c) \/ CallCommit(c) \/ CallRollback(c)

TxnStep(c) ==
    \/ Begin_Lock(c) \/ Begin_Return(c)
    \/ Commit_Unlock(c) \/ Rollback_Unlock(c)

BatchCall(c) ==
    \/ \E m \in BatchMaps : CallBatchSet(c, m)
    \/ \E ks \in BatchLists : CallBatchDelete(c, ks)

BatchStep(c) ==
    \/ BatchSet_Range(c) \/ BatchSet_Lock(c) \/ BatchSet_Store(c)
    \/ BatchDelete_Range(c) \/ BatchDelete_Lock(c) \/ BatchDelete_Delete(c)

\* Every method, called by every caller at any time it is idle.
Init == InitWith(Callers, MaxConcOps, 0)

Next ==
    \/ Construct
    \/ \E c \in Callers :
          \/ CrudCall(c) \/ CrudStep(c)
          \/ ScanCall(c) \/ ScanStep(c)
          \/ TxnCall(c) \/ TxnStep(c)
          \/ BatchCall(c) \/ BatchStep(c)

Spec == Init /\ [][Next]_vars

\* One caller, calling Set, Get, Delete, Keys and Size one after the other;
\* every returned call is recorded.
SeqInit == InitWith({"c1"}, MaxSeqOps, MaxSeqOps)

SeqNext ==
    \/ Construct
    \/ \E c \in Callers :
          \/ CrudCall(c) \/ CrudStep(c)
          \/ ScanCall(c) \/ ScanStep(c)

SeqSpec == SeqInit /\ [][SeqNext]_vars

\* One caller, calling Set, Get and Delete, and writing to its objects
\* between the calls.
AliasNext ==
    \/ Construct
    \/ \E c \in Callers :
          \/ CrudCall(c) \/ CrudStep(c)
          \/ \E r \in Refs, v \in Contents : Mutate(c, r, v)

AliasSpec == SeqInit /\ [][AliasNext]_vars

\* The callers as goroutines of TestKeyValueStore_Concurrent: each caller
\* Sets keys of its own, and the Gets and Keys start once every Set has
\* returned; every returned call is recorded.
OwnKey(c) == IF c = "c1" THEN << 97 >> ELSE << 98 >>

Writing ==
    /\ \A n \in 1 .. Len(hist) : hist[n].op = "Set"
    /\ \A c \in Callers : pc[c] \in {"idle", "Set_Lock", "Set_Store"}

WritersDone == \A c \in Callers : pc[c] \notin {"Set_Lock", "Set_Store"}

ConcInit == InitWith(Callers, MaxConcOps + 1, MaxConcOps + 1)

ConcNext ==
    \/ Construct
    \/ \E c \in Callers :
          \/ Writing /\ \E r \in Refs : CallSet(c, OwnKey(c), r)
          \/ Set_Lock(c) \/ Set_Store(c)
          \/ WritersDone /\ \E k \in Keys : CallGet(c, k)
          \/ Get_RLock(c) \/ Get_Read(c)
          \/ WritersDone /\ CallKeys(c)
          \/ Keys_RLock(c) \/ Keys_Read(c) \/ Keys_Return(c)

ConcSpec == ConcInit /\ [][ConcNext]_vars

\* Keys() while other callers Set and Delete; every returned call is
\* recorded.
ScanInit == InitWith(Callers, MaxConcOps, MaxConcOps)

ScanNext ==
    \/ Construct
    \/ \E c \in Callers :
          \/ \E k \in Keys, r \in Refs : CallSet(c, k, r)
          \/ Set_Lock(c) \/ Set_Store(c)
          \/ \E k \in Keys : CallDelete(c, k)
          \/ Delete_Lock(c) \/ Delete_Body(c)
          \/ CallKeys(c)
          \/ Keys_RLock(c) \/ Keys_Read(c) \/ Keys_Return(c)

ScanSpec == ScanInit /\ [][ScanNext]_vars

\* Callers that call Begin() at any time, also inside a bracket of their
\* own, that call Commit() or Rollback() only to close a bracket of their
\* own, and that call Set, Get and Delete.
NestInit == InitWith(Callers, MaxConcOps, 0)

NestNext ==
    \/ Construct
    \/ \E c \in Callers :
          \/ CallBegin(c)
          \/ Begin_Lock(c) \/ Begin_Return(c)
          \/ open[c] /\ CallCommit(c)
          \/ Commit_Unlock(c)
          \/ open[c] /\ CallRollback(c)
          \/ Rollback_Unlock(c)
          \/ CrudCall(c) \/ CrudStep(c)

NestSpec == NestInit /\ [][NestNext]_vars

\* Callers that call Set, Get and Delete at any time.
CrudInit == InitWith(Callers, MaxConcOps, 0)

CrudNext ==
    \/ Construct
    \/ \E c \in Callers : CrudCall(c) \/ CrudStep(c)

CrudSpec == CrudInit /\ [][CrudNext]_vars

\* Callers that call Set, Get and Delete at any time, each caller passing
\* an object of its own to Set; every returned call is recorded.
OwnRef(c) == IF c = "c1" THEN "p1" ELSE "p2"

KeyInit == InitWith(Callers, MaxConcOps, MaxConcOps)

KeyNext ==
    \/ Construct
    \/ \E c \in Callers :
          \/ \E k \in Keys : CallSet(c, k, OwnRef(c))
          \/ \E k \in Keys : CallGet(c, k)
          \/ \E k \in Keys : CallDelete(c, k)
          \/ CrudStep(c)

KeySpec == KeyInit /\ [][KeyNext]_vars

\* Callers that call Get, Set, Delete, Keys and Size at any time outside a
\* bracket of their own, and that close every bracket they open: a caller
\* inside its bracket calls Commit() or Rollback() and nothing else, and
\* the calls are handed out so that one is left for every open bracket.
\* Every call that can take its next step does take it in the end.
Reserved == Cardinality({c \in Callers : open[c] \/ pc[c] = "Begin_Lock"})

LiveInit == InitWith(Callers, MaxConcOps, 0)

LiveCall(c) ==
    \/ /\ ~open[c]
       /\ left > Reserved
       /\ \/ \E k \in Keys : CallSet(c, k, OwnRef(c))
          \/ \E k \in Keys : CallGet(c, k)
          \/ \E k \in Keys : CallDelete(c, k)
          \/ CallKeys(c) \/ CallSize(c)
    \/ /\ ~open[c]
       /\ left > Reserved + 1
       /\ CallBegin(c)

LiveClose(c) == open[c] /\ (CallCommit(c) \/ CallRollback(c))

LiveStep(c) ==
    \/ CrudStep(c) \/ ScanStep(c)
    \/ Begin_Lock(c) \/ Begin_Return(c)
    \/ Commit_Unlock(c) \/ Rollback_Unlock(c)

LiveNext ==
    \/ Construct
    \/ \E c \in Callers : LiveCall(c) \/ LiveClose(c) \/ LiveStep(c)

LiveSpec ==
    /\ LiveInit
    /\ [][LiveNext]_vars
    /\ \A c \in Callers : WF_vars(LiveStep(c)) /\ WF_vars(LiveClose(c))

\* shardIndex on its own: any key of up to MaxKeyLen bytes, any shard
\* count from 1 to MaxShards, int 32 or 64 bits wide.
HashBytes == {0, 97, 98, 255}

HashKeys == UNION {[1 .. n -> HashBytes] : n \in 0 .. MaxKeyLen}

HashInputs ==
    [fn : {"shardIndex"}, key : HashKeys, n : 1 .. MaxShards, bits : {32, 64},
     done : {FALSE}, out : {0}]

HashInit == InitMachine({}, 0, 0) /\ calc \in HashInputs

ShardIndexCall ==
    /\ calc.fn = "shardIndex"
    /\ ~calc.done
    /\ calc' = [calc EXCEPT !.done = TRUE,
                            !.out = shardIndexOn(calc.key, calc.n, calc.bits)]
    /\ UNCHANGED machineVars

HashNext == ShardIndexCall

HashSpec == HashInit /\ [][HashNext]_vars

\* formatSize on its own: any uint64 whose digits are among LimbValues.
LimbValues == {0, 1, 15, 1023}

Sizes64 == {x \in [LimbRange -> LimbValues] : x[Limbs] < TopLimb}

FormatInputs ==
    [fn : {"formatSize"}, size : Sizes64, done : {FALSE},
     out : {[suffix |-> "", panic |-> FALSE, quot |-> Zero64]}]

FormatInit == InitMachine({}, 0, 0) /\ calc \in FormatInputs

FormatSizeCall ==
    /\ calc.fn = "formatSize"
    /\ ~calc.done
    /\ calc' = [calc EXCEPT !.done = TRUE, !.out = formatSizeUint64(calc.size)]
    /\ UNCHANGED machineVars

FormatNext == FormatSizeCall

FormatSpec == FormatInit /\ [][FormatNext]_vars

\* One caller that calls every method, beside a caller that calls only
\* Begin, Commit and Rollback, at any time.
RelInit == InitWith(Callers, MaxConcOps, 0)

RelNext ==
    \/ Construct
    \/ CrudCall("c1") \/ ScanCall("c1") \/ BatchCall("c1")
    \/ \E c \in Callers :
          \/ TxnCall(c)
          \/ CrudStep(c) \/ ScanStep(c) \/ TxnStep(c) \/ BatchStep(c)

RelSpec == RelInit /\ [][RelNext]_vars

\* ------------------------------------------- what a history should give
\* The key-value mapping after the first n recorded calls, by the meaning
\* of the calls alone: Set binds, Delete unbinds.
RECURSIVE After(_, _)
After(h, n) ==
    IF n = 0 THEN [k \in Keys |-> "nil"]
    ELSE LET m == After(h, n - 1)
             r == h[n]
         IN  IF r.op = "Set" THEN [m EXCEPT ![r.key] = r.arg]
             ELSE IF r.op = "Delete" THEN [m EXCEPT ![r.key] = "nil"]
             ELSE m

Holds(c) == {s \in Shards : wlock[s] = c \/ c \in rlock[s]}

Range(q) == {q[x] : x \in DOMAIN q}

\* ======================================================================
\* C8.  A Get or a Delete of a key that is not in the store returns
\* ErrNotFound (Get with a nil value), changes no shard map, and the caller
\* holds no shard lock once the call has returned.
C8_Absent(h, n) ==
    /\ h[n].op \in {"Get", "Delete"}
    /\ After(h, n - 1)[h[n].key] = "nil"

C8_NotFoundStep(c) ==
    /\ pc[c] \in {"Get_Read", "Delete_Body"}
    /\ shards[fr[c].i][fr[c].key] = "nil"
    /\ pc'[c] # pc[c]

C8_NotFound ==
    /\ [](\A n \in 1 .. Len(hist) :
            C8_Absent(hist, n) =>
               /\ hist[n].err = "ErrNotFound"
               /\ hist[n].ref = "nil" /\ hist[n].val = "nil")
    /\ [](\A c \in Callers : pc[c] = "idle" => Holds(c) = {})
    /\ [][\A c \in Callers :
            C8_NotFoundStep(c) =>
               /\ shards' = shards
               /\ ret'[c].err = "ErrNotFound"
               /\ Holds(c)' = {}]_vars

\* both a Get and a Delete of an absent key have returned
C8_Witness ==
    /\ \E n \in 1 .. Len(hist) : C8_Absent(hist, n) /\ hist[n].op = "Get"
    /\ \E n \in 1 .. Len(hist) : C8_Absent(hist, n) /\ hist[n].op = "Delete"

\* ======================================================================
\* C9.  In a sequential history every Set returns nil, and a Get of a key
\* returns the value of the latest Set of that key that no Delete of the
\* key has followed; a second Set of a key replaces the first.
C9_Upsert ==
    \A n \in 1 .. Len(hist) :
       /\ hist[n].op = "Set" => hist[n].err = "nil"
       /\ (hist[n].op = "Get" /\ After(hist, n - 1)[hist[n].key] # "nil") =>
             /\ hist[n].err = "nil"
             /\ hist[n].val = After(hist, n - 1)[hist[n].key]

\* Set(k, v1), Set(k, v2) with another value, then Get(k) returned
C9_Witness ==
    /\ Len(hist) >= 3
    /\ hist[1].op = "Set" /\ hist[2].op = "Set" /\ hist[3].op = "Get"
    /\ hist[1].key = hist[2].key /\ hist[2].key = hist[3].key
    /\ hist[1].arg # hist[2].arg
    /\ hist[3].val = hist[2].arg

\* ======================================================================
\* C10.  A Delete of a key that a Set put in the store returns nil; until
\* the key is Set again a Get of it returns a nil value with ErrNotFound and
\* Keys() does not contain it; the Delete changes the entry of no other key.
C10_Gone(h, d, n) ==
    /\ d < n
    /\ h[d].op = "Delete"
    /\ \A j \in (d + 1) .. (n - 1) : ~(h[j].op = "Set" /\ h[j].key = h[d].key)

C10_DeleteStep(c) == pc[c] = "Delete_Body" /\ pc'[c] # pc[c]

C10_Delete ==
    /\ [](\A n \in 1 .. Len(hist) :
            /\ (hist[n].op = "Delete" /\ After(hist, n - 1)[hist[n].key] # "nil")
                  => hist[n].err = "nil"
            /\ \A d \in 1 .. Len(hist) :
                  C10_Gone(hist, d, n) =>
                     /\ (hist[n].op = "Get" /\ hist[n].key = hist[d].key) =>
                           hist[n].err = "ErrNotFound" /\ hist[n].val = "nil"
                     /\ hist[n].op = "Keys" =>
                           hist[d].key \notin Range(hist[n].keys))
    /\ [][\A c \in Callers :
            C10_DeleteStep(c) =>
               \A s \in Shards, k \in Keys :
                  IF s = fr[c].i /\ k = fr[c].key
                  THEN shards'[s][k] = "nil"
                  ELSE shards'[s][k] = shards[s][k]]_vars

\* Set(k, v), Delete(k) returning nil, then Get(k) returning ErrNotFound
C10_Witness ==
    /\ Len(hist) >= 3
    /\ hist[1].op = "Set" /\ hist[2].op = "Delete" /\ hist[3].op = "Get"
    /\ hist[1].key = hist[2].key /\ hist[2].key = hist[3].key
    /\ hist[2].err = "nil"
    /\ hist[3].err = "ErrNotFound"

\* what stands in the way of caller c: a lock another caller holds
NoOtherHolds(c) ==
    \A s \in Shards : wlock[s] \in {"free", c} /\ rlock[s] \subseteq {c}

Lookup(k) == shards[shardIndex(k, count)][k]

\* ======================================================================
\* C1.  BatchSet and BatchDelete return: a batch call that no other caller
\* stands in the way of is never left waiting for a lock; and once
\* BatchSet(m) has returned every key of m maps to its value in m, once
\* BatchDelete(ks) has returned no key of ks is present (stated for a batch
\* call that is the only call made so far).
C1_BatchCallsReturn ==
    \A c \in Callers :
       /\ (pc[c] \in {"BatchSet_Lock", "BatchDelete_Lock"} /\ NoOtherHolds(c))
             => CanLock(fr[c].i)
       /\ (left = MaxConcOps - 1 /\ pc[c] = "idle" /\ ret[c].op = "BatchSet")
             => \A k \in DOMAIN ret[c].batch : Lookup(k) = ret[c].batch[k]
       /\ (left = MaxConcOps - 1 /\ pc[c] = "idle" /\ ret[c].op = "BatchDelete")
             => \A k \in Range(ret[c].batch) : Lookup(k) = "nil"

\* ======================================================================
\* C2.  A caller that has returned from Begin() completes each Set(k, v) it
\* then makes: inside its own bracket, with no other caller holding a lock,
\* its Set is never left waiting for the shard lock.
C2_SetInsideBracketCompletes ==
    \A c \in Callers :
       (open[c] /\ pc[c] = "Set_Lock" /\ NoOtherHolds(c)) => CanLock(fr[c].i)

\* ======================================================================
\* C3.  NewKeyValueStore(numShards) fails with ErrInvalidNumShards when
\* numShards <= 0, so no store has a modulus below 1; for numShards > 0 it
\* gives numShards empty shards with every lock free.
C3_RejectsNonPositive ==
    newResult # "none" =>
       IF numShards <= 0
       THEN newResult = "ErrInvalidNumShards"
       ELSE /\ newResult = "store"
            /\ count = numShards
            /\ count > 0
            /\ left = MaxConcOps =>
                  \A s \in Shards :
                     /\ Present(shards[s]) = {}
                     /\ wlock[s] = "free" /\ rlock[s] = {}

\* ======================================================================
\* C4.  Clone on the boundary: the object a shard map holds is never the
\* object the caller passed to Set nor the object Get returned, and a Get
\* returns what the latest Set of the key stored, whatever the caller has
\* since written to the object it passed or received.
C4_CloneOnBoundary ==
    /\ \A c \in Callers :
          (pc[c] = "idle" /\ ret[c].op \in {"Set", "Get"} /\ ret[c].ref # "nil")
             => \A s \in Shards, k \in Keys : shards[s][k] # ret[c].ref
    /\ \A n \in 1 .. Len(hist) :
          (hist[n].op = "Get" /\ After(hist, n - 1)[hist[n].key] # "nil")
             => hist[n].val = After(hist, n - 1)[hist[n].key]

\* ======================================================================
\* C5.  A caller that has returned from Begin() and has not yet called
\* Commit() or Rollback() holds the exclusive lock of every shard (a first
\* Begin holds, while it acquires, only shards below the one it is at); and
\* while its bracket is open no call of another caller is at a step that
\* reads or mutates a shard map or returns.
C5_Inside ==
    {"Set_Store", "Get_Read", "Delete_Body", "Keys_Read", "Size_Read",
     "Begin_Return", "BatchSet_Range", "BatchSet_Lock", "BatchSet_Store",
     "BatchDelete_Range", "BatchDelete_Lock", "BatchDelete_Delete"}

C5_BracketExcludesOthers ==
    \A c \in Callers :
       /\ (~open[c] /\ pc[c] = "Begin_Lock") =>
             \A s \in Shards : wlock[s] = c => s < fr[c].i
       /\ (open[c] /\ count > 0) =>
             /\ \A s \in Shards : wlock[s] = c
             /\ \A d \in Callers \ {c} : pc[d] \notin C5_Inside

\* ======================================================================
\* C6.  Multi-shard lock acquisition never deadlocks: there is no set of
\* callers, each inside Begin (outside a bracket of its own), BatchSet or
\* BatchDelete and waiting for a shard lock, such that every lock one of
\* them waits for is held by one of them (a circular wait, from which none
\* of them ever returns).
C6_WaitsFor(c) ==
    IF /\ ~open[c]
       /\ \/ pc[c] = "Begin_Lock" /\ fr[c].i < count
          \/ pc[c] \in {"BatchSet_Lock", "BatchDelete_Lock"}
    THEN {fr[c].i}
    ELSE {}

C6_Holders(s) == {d \in Callers : wlock[s] = d \/ d \in rlock[s]}

C6_NoDeadlock ==
    \A D \in SUBSET Callers :
       D # {} =>
          \E c \in D :
             \/ C6_WaitsFor(c) = {}
             \/ \E s \in C6_WaitsFor(c) :
                   C6_Holders(s) = {} \/ ~(C6_Holders(s) \subseteq D)

\* ======================================================================
\* C7.  Once the callers' concurrent Sets on keys of their own have all
\* returned (each without error), every Get of a key that was set, run
\* alongside other Gets and Keys, returns without error the value last
\* written to that key, and Keys() returns exactly the keys that were set,
\* each once.
C7_WasSet(n) == {k \in Keys : After(hist, n)[k] # "nil"}

C7_ConcurrentSetsThenGets ==
    \A n \in 1 .. Len(hist) :
       /\ hist[n].op = "Set" => hist[n].err = "nil"
       /\ (hist[n].op = "Get" /\ hist[n].key \in C7_WasSet(n - 1)) =>
             /\ hist[n].err = "nil"
             /\ hist[n].val = After(hist, n - 1)[hist[n].key]
       /\ hist[n].op = "Keys" =>
             /\ hist[n].err = "nil"
             /\ Range(hist[n].keys) = C7_WasSet(n - 1)
             /\ Len(hist[n].keys) = Cardinality(C7_WasSet(n - 1))

\* both callers Set a key of their own, to different values; one caller's
\* Get of the other's key returned that value while the other caller was
\* inside its own Get
C7_Witness ==
    /\ Len(hist) = 3
    /\ hist[1].op = "Set" /\ hist[2].op = "Set" /\ hist[3].op = "Get"
    /\ hist[1].who # hist[2].who
    /\ hist[1].arg # hist[2].arg
    /\ hist[3].who = hist[2].who /\ hist[3].key = hist[1].key
    /\ hist[3].val = hist[1].arg
    /\ pc[hist[1].who] = "Get_Read"

\* ======================================================================
\* C11.  In a sequential history of Set and Delete calls, Keys() returns
\* without error a sequence that holds every key now present (Set and not
\* since Deleted) exactly once and no other key, so that its length is the
\* number of keys present.
C11_PresentAfter(n) == {k \in Keys : After(hist, n)[k] # "nil"}

C11_KeysExactlyOnce ==
    \A n \in 1 .. Len(hist) :
       hist[n].op = "Keys" =>
          /\ hist[n].err = "nil"
          /\ \A k \in C11_PresentAfter(n - 1) :
                Cardinality({x \in DOMAIN hist[n].keys : hist[n].keys[x] = k}) = 1
          /\ \A x \in DOMAIN hist[n].keys :
                hist[n].keys[x] \in C11_PresentAfter(n - 1)
          /\ Len(hist[n].keys) = Cardinality(C11_PresentAfter(n - 1))

\* two keys were Set and Keys() then returned both
C11_Witness ==
    /\ Len(hist) = 3
    /\ hist[1].op = "Set" /\ hist[2].op = "Set" /\ hist[3].op = "Keys"
    /\ hist[1].key # hist[2].key
    /\ Len(hist[3].keys) = 2

\* ======================================================================
\* C12.  Keys() holds at most one shard's shared lock at any instant: it
\* holds none while it waits for the next shard and exactly that shard's
\* while it reads it, and never an exclusive lock.  (That its result need
\* not be the content of the store at any one instant is the reachable
\* state C12_Witness.)
C12_SharedHeld(c) == {s \in Shards : c \in rlock[s]}

C12_OneSharedLock ==
    \A c \in Callers :
       /\ pc[c] = "Keys_RLock" => C12_SharedHeld(c) = {}
       /\ pc[c] = "Keys_Read" => C12_SharedHeld(c) = {fr[c].i}
       /\ pc[c] \in {"Keys_RLock", "Keys_Read"} =>
             \A s \in Shards : wlock[s] # c

\* the key sets the store has held, one after the other, when every
\* recorded call but the last is a Set or Delete of one caller
C12_Contents == {{k \in Keys : After(hist, m)[k] # "nil"} : m \in 0 .. Len(hist)}

\* every call made has returned; one caller made Sets and Deletes, the
\* other one Keys() call, which returned last, and the keys it returned
\* were at no instant the keys of the store
C12_Witness ==
    /\ Len(hist) >= 3
    /\ left = MaxConcOps - Len(hist)
    /\ \A c \in Callers : pc[c] = "idle"
    /\ hist[Len(hist)].op = "Keys"
    /\ \A n \in 1 .. (Len(hist) - 1) :
          /\ hist[n].op \in {"Set", "Delete"}
          /\ hist[n].who # hist[Len(hist)].who
    /\ Range(hist[Len(hist)].keys) \notin C12_Contents

\* ======================================================================
\* C13.  Commit() and Rollback() are guarded: a call of either never
\* comes to unlock a shard lock that is not held in exclusive mode, also
\* when no Begin() went before it.
C13_UnlockGuarded ==
    \A c \in Callers :
       (pc[c] \in {"Commit_Unlock", "Rollback_Unlock"} /\ fr[c].i < count)
          => wlock[fr[c].i] # "free"

\* ======================================================================
\* C14.  Commit() and Rollback() act alike in every state: a call of
\* either goes through without ending the process, returns no error, and
\* when it has returned with no other call begun since, every shard lock
\* is free.
C14_CommitRollbackRelease ==
    \A c \in Callers :
       /\ fr[c].op \in {"Commit", "Rollback"} =>
             fault # "fatal error: sync: Unlock of unlocked RWMutex"
       /\ (pc[c] = "idle" /\ ret[c].op \in {"Commit", "Rollback"}) =>
             /\ ret[c].err = "nil"
             /\ (\A d \in Callers : pc[d] = "idle" /\ ~open[d]) =>
                   \A s \in Shards : wlock[s] = "free"

\* ======================================================================
\* C15.  A caller that calls Begin() again inside its own bracket, on a
\* store with shards, deadlocks against itself: it holds every shard lock
\* and waits for the first one; as long as no other caller releases the
\* locks its second Begin() never returns, and no Set, Get, Delete or
\* Begin of another caller gets past its lock or returns (a Commit or
\* Rollback that has released its last lock is the only call that can).
C15_Nested(c) == count > 0 /\ open[c] /\ pc[c] = "Begin_Lock"

C15_Waiting == {"Set_Lock", "Get_RLock", "Delete_Lock", "Begin_Lock"}

C16_BatchDeleteSkipsAbsent ==
    \A c \in Callers :
       /\ (fr[c].op = "BatchDelete" /\ fr[c].j > 1 /\ NoOtherHolds(c)) =>
             \/ pc[c] # "BatchDelete_Lock"
             \/ wlock[fr[c].i] = "free"
       /\ (pc[c] = "idle" /\ ret[c].op = "BatchDelete") =>
             /\ ret[c].err = "nil"
             /\ (\A d \in Callers : pc[d] = "idle" /\ ret[d].op \in {"none", "BatchDelete"})
                   => \A k \in Range(ret[c].batch) : Lookup(k) = "nil"

\* ======================================================================
\* C19.  Batch lock protocol: a BatchSet or BatchDelete that has taken
\* every shard lock acquires no shard lock it already holds, and it holds
\* every shard lock at each of its map mutations.
C19_BatchLockProtocol ==
    \A c \in Callers :
       /\ pc[c] \in {"BatchSet_Lock", "BatchDelete_Lock"} =>
             wlock[fr[c].i] # c
       /\ pc[c] \in {"BatchSet_Store", "BatchDelete_Delete"} =>
             \A s \in Shards : wlock[s] = c

\* ======================================================================
\* C17.  In a sequential history Size() gives the number of keys present:
\* 0 after construction, one more after a Set of an absent key, the same
\* after a Set of a present key, one less after a Delete that succeeded;
\* below 1024 it is rendered as that number with the suffix B.
C17_Entries(n) == Cardinality({k \in Keys : After(hist, n)[k] # "nil"})

C17_SizeCountsEntries ==
    \A n \in 1 .. Len(hist) :
       /\ hist[n].op = "Size" =>
             /\ hist[n].size = << C17_Entries(n - 1), "B" >>
             /\ (\A m \in 1 .. (n - 1) : hist[m].op \notin {"Set", "Delete"})
                   => hist[n].size[1] = 0
       /\ (hist[n].op = "Set" /\ After(hist, n - 1)[hist[n].key] = "nil") =>
             C17_Entries(n) = C17_Entries(n - 1) + 1
       /\ (hist[n].op = "Set" /\ After(hist, n - 1)[hist[n].key] # "nil") =>
             C17_Entries(n) = C17_Entries(n - 1)
       /\ (hist[n].op = "Delete" /\ hist[n].err = "nil") =>
             C17_Entries(n) = C17_Entries(n - 1) - 1

\* two keys were Set and Size() then returned 2 B
C17_Witness ==
    /\ Len(hist) = 3
    /\ hist[1].op = "Set" /\ hist[2].op = "Set" /\ hist[3].op = "Size"
    /\ hist[1].key # hist[2].key
    /\ hist[3].size = << 2, "B" >>

\* ======================================================================
\* C18.  Per-shard mutual exclusion in every reachable state: a caller at
\* a step that mutates a shard's map holds that shard's lock in exclusive
\* mode, a caller at a step that reads it holds the lock in shared mode;
\* no shard has two writers in its critical section at once, nor a writer
\* together with a reader.
C18_Writers(s) ==
    {c \in Callers :
        /\ pc[c] \in {"Set_Store", "Delete_Body", "BatchSet_Store",
                      "BatchDelete_Delete"}
        /\ fr[c].i = s}

C18_Readers(s) ==
    {c \in Callers : pc[c] \in {"Get_Read", "Keys_Read", "Size_Read"} /\ fr[c].i = s}

C18_MutualExclusion ==
    \A s \in Shards :
       /\ Cardinality(C18_Writers(s)) <= 1
       /\ C18_Writers(s) # {} => C18_Readers(s) = {}
       /\ \A c \in C18_Writers(s) : wlock[s] = c
       /\ \A c \in C18_Readers(s) : c \in rlock[s] /\ wlock[s] = "free"

\* ======================================================================
\* C20.  Every operation releases what it acquired: a caller whose Get,
\* Set, Delete, Keys, Size, BatchSet or BatchDelete has returned, and who
\* has no bracket open, holds no shard lock; and when no call is in
\* progress and no bracket is open, every shard lock is free.
C20_Ops == {"Get", "Set", "Delete", "Keys", "Size", "BatchSet", "BatchDelete"}

C20_ReleasedOnReturn ==
    /\ \A c \in Callers :
          (pc[c] = "idle" /\ ret[c].op \in C20_Ops /\ ~open[c]) => Holds(c) = {}
    /\ (\A c \in Callers : pc[c] = "idle" /\ ~open[c]) =>
          \A s \in Shards : wlock[s] = "free" /\ rlock[s] = {}

\* a Delete of an absent key has returned ErrNotFound; no call is in
\* progress, no bracket is open, and every lock of the store is free
C20_Witness ==
    /\ count = MaxShards
    /\ \A c \in Callers : pc[c] = "idle" /\ ~open[c]
    /\ ret["c1"].op = "Delete"
    /\ ret["c1"].err = "ErrNotFound"
    /\ \A s \in Shards : wlock[s] = "free" /\ rlock[s] = {}

\* ======================================================================
\* C21.  Shard routing: on a store with shards, after any Set, Delete,
\* BatchSet and BatchDelete, every key present is in the map of one shard
\* only, the shard its hash names; the shards' key sets are pairwise
\* disjoint; and every Get, Set, Delete and batch step for a key uses the
\* lock and the map of that same shard.
C21_Home(k) == IntMod(Fnv(k), count, IntBits)

C21_KeySteps ==
    {"Set_Lock", "Set_Store", "Get_RLock", "Get_Read", "Delete_Lock",
     "Delete_Body", "BatchSet_Lock", "BatchSet_Store", "BatchDelete_Lock",
     "BatchDelete_Delete"}

C21_Routing ==
    count > 0 =>
       /\ \A s \in Shards, k \in Keys :
             shards[s][k] # "nil" => s = C21_Home(k)
       /\ \A s, t \in Shards :
             s # t => Present(shards[s]) \cap Present(shards[t]) = {}
       /\ \A c \in Callers :
             pc[c] \in C21_KeySteps => fr[c].i = C21_Home(fr[c].key)

\* two keys are present, each in a shard of its own
C21_Witness ==
    /\ count = MaxShards
    /\ \E s, t \in Shards :
          /\ s # t
          /\ shards[s][<< 97 >>] # "nil"
          /\ shards[t][<< 98 >>] # "nil"

\* ======================================================================
\* C22.  A BatchSet is atomic to single-key reads: with no other writer,
\* once a Get of another caller has returned the value a BatchSet in
\* progress has written for one key of its batch (the keys of the batch
\* holding no value but the batch's), every key of the batch has the
\* batch's value in the store, so that a later Get of any of them returns
\* it.
C22_Applied(c, k) ==
    /\ k \in DOMAIN fr[c].kv
    /\ k \notin fr[c].rest
    /\ ~(fr[c].key = k /\ pc[c] \in {"BatchSet_Lock", "BatchSet_Store"})

C22_SawBatch(c, d) ==
    /\ pc[d] = "idle"
    /\ ret[d].op = "Get"
    /\ C22_Applied(c, ret[d].key)
    /\ ret[d].ref = fr[c].kv[ret[d].key]
    /\ \A k \in DOMAIN fr[c].kv : Lookup(k) \in {"nil", fr[c].kv[k]}

C23_Value(k) == IF Lookup(k) = "nil" THEN "nil" ELSE heap[Lookup(k)]

C23_InWrite(s) ==
    {c \in Callers : pc[c] \in {"Set_Store", "Delete_Body"} /\ fr[c].i = s}

C23_InRead(s) == {c \in Callers : pc[c] = "Get_Read" /\ fr[c].i = s}

C23_SerializedPerKey ==
    /\ \A s \in Shards :
          /\ Cardinality(C23_InWrite(s)) <= 1
          /\ C23_InWrite(s) # {} => C23_InRead(s) = {}
    /\ \A n \in 1 .. Len(hist) :
          LET before == After(hist, n - 1)[hist[n].key]
          IN  /\ hist[n].op = "Get" =>
                    /\ hist[n].val = before
                    /\ hist[n].err = IF before = "nil" THEN "ErrNotFound" ELSE "nil"
              /\ hist[n].op = "Delete" =>
                    hist[n].err = IF before = "nil" THEN "ErrNotFound" ELSE "nil"
    /\ count > 0 =>
          \A k \in Keys : C23_Value(k) = After(hist, Len(hist))[k]

\* the two callers Set one key to different values, one after the other,
\* and a Get of the key then returned the value of the later Set
C23_Witness ==
    /\ Len(hist) = 3
    /\ hist[1].op = "Set" /\ hist[2].op = "Set" /\ hist[3].op = "Get"
    /\ hist[1].who # hist[2].who
    /\ hist[1].key = hist[2].key /\ hist[2].key = hist[3].key
    /\ hist[1].arg # hist[2].arg
    /\ hist[3].val = hist[2].arg

\* ======================================================================
\* C24.  Shards are independently lockable: with no bracket and no batch
\* operation, a Set, Get or Delete waiting for the lock of its key's shard
\* can take it unless another caller holds the lock of that very shard;
\* what other callers hold of other shards never blocks it.
C24_HeldByOther(c, s) ==
    \E d \in Callers \ {c} : wlock[s] = d \/ d \in rlock[s]

C24_WriteHeldByOther(c, s) == \E d \in Callers \ {c} : wlock[s] = d

C24_IndependentShards ==
    \A c \in Callers :
       /\ (pc[c] \in {"Set_Lock", "Delete_Lock"} /\ ~C24_HeldByOther(c, fr[c].i))
             => CanLock(fr[c].i)
       /\ (pc[c] = "Get_RLock" /\ ~C24_WriteHeldByOther(c, fr[c].i))
             => CanRLock(fr[c].i)

\* two callers are inside the write critical sections of two shards
C24_Witness ==
    /\ pc["c1"] \in {"Set_Store", "Delete_Body"}
    /\ pc["c2"] \in {"Set_Store", "Delete_Body"}
    /\ fr["c1"].i # fr["c2"].i
    /\ wlock[fr["c1"].i] = "c1"
    /\ wlock[fr["c2"].i] = "c2"

\* ======================================================================
\* C27.  Frame of single-key writes: every step of a Set(k, v) or a
\* Delete(k) works on the shard shardIndex(k); it leaves the entry of
\* every other key, in that shard and in every other shard, and the lock
\* state of every other shard as they were.
C27_WriteStep(c) ==
    /\ pc[c] \in {"Set_Lock", "Set_Store", "Delete_Lock", "Delete_Body"}
    /\ pc'[c] # pc[c]

C27_WriteFrame ==
    [][\A c \in Callers :
          C27_WriteStep(c) =>
             /\ fr[c].i = shardIndex(fr[c].key, count)
             /\ \A s \in Shards, k \in Keys :
                   (s # fr[c].i \/ k # fr[c].key) => shards'[s][k] = shards[s][k]
             /\ \A s \in Shards :
                   s # fr[c].i => wlock'[s] = wlock[s] /\ rlock'[s] = rlock[s]]_vars

\* in a store of one shard that holds one key, a Set or a Delete of the
\* other key has returned, and the first key still has its value
C27_Witness ==
    /\ count = 1
    /\ pc["c1"] = "idle"
    /\ ret["c1"].op \in {"Set", "Delete"}
    /\ ret["c1"].key = << 98 >>
    /\ shards[0][<< 97 >>] # "nil"

\* ======================================================================
\* C26.  The locks of a caller's Begin() are released by that caller's own
\* Commit() or Rollback() only: while a caller's bracket is open, no
\* Commit() or Rollback() of another caller has released a shard lock.
C26_Releasing(d) ==
    /\ fr[d].op \in {"Commit", "Rollback"}
    /\ pc[d] \in {"Commit_Unlock", "Rollback_Unlock"}
    /\ fr[d].i > 0

C26_OnlyHolderReleases ==
    \A c \in Callers :
       (open[c] /\ count > 0) =>
          \A d \in Callers \ {c} : ~C26_Releasing(d)

\* ======================================================================
\* C25.  No operation fails or hangs under contention: with callers that
\* call only Get, Set, Delete, Keys and Size and that close the brackets
\* they open, under fair scheduling every call made on a store with shards
\* returns; no such call ends the process, and the only error a call
\* returns is the ErrNotFound of a Get or Delete.
C25_EveryCallReturns ==
    /\ \A c \in Callers : (count > 0 /\ pc[c] # "idle") ~> (pc[c] = "idle")
    /\ [](count > 0 => fault = "none")
    /\ [](\A c \in Callers :
            /\ ret[c].err \in {"nil", "ErrNotFound"}
            /\ ret[c].err = "ErrNotFound" => ret[c].op \in {"Get", "Delete"})

\* a Get waits for a shard whose lock the bracket of the other caller holds
C25_Witness ==
    /\ count = MaxShards
    /\ open["c1"]
    /\ pc["c2"] = "Get_RLock"
    /\ wlock[fr["c2"].i] = "c1"

\* ======================================================================
\* C28.  For every key and every shard count n > 0 the index shardIndex
\* computes is in [0, n), where int is 64 bits wide and where it is 32
\* bits wide.
C28_IndexInRange ==
    (calc.fn = "shardIndex" /\ calc.done) => calc.out \in 0 .. (calc.n - 1)

\* ======================================================================
\* C29.  For every uint64 size formatSize divides by no zero and returns
\* floor(size / 1024^i) with the i-th suffix, a suffix that is never
\* empty, where i is the largest index with 1024^i <= size, and 0 for
\* sizes below 1024.
C29_Index(size) ==
    IF size = Zero64 THEN 0
    ELSE (CHOOSE j \in LimbRange :
             size[j] # 0 /\ \A m \in LimbRange : m > j => size[m] = 0) - 1

C29_Floor(size, i) ==
    [j \in LimbRange |-> IF j + i <= Limbs THEN size[j + i] ELSE 0]

C29_FormatsEverySize ==
    (calc.fn = "formatSize" /\ calc.done) =>
       LET i == C29_Index(calc.size)
       IN  /\ ~calc.out.panic
           /\ calc.out.suffix = suffixes[i + 1]
           /\ calc.out.quot = C29_Floor(calc.size, i)

====
